---- MODULE Spec2Model ----
(***************************************************************************)
(* K-line batch refresh of packages/api/src/routers/stock.ts.              *)
(*                                                                         *)
(* The server is one JavaScript event loop: a handler runs without         *)
(* interruption from one `await` to the next.  Every action below is one   *)
(* such run-to-completion segment; a database call is executed in the step *)
(* that resumes from its `await`.                                          *)
(***************************************************************************)
EXTENDS Integers, Sequences, FiniteSets, TLC

(* ------------------------------ bounds --------------------------------- *)
\* number of checkAndUpdateKLine requests the clients send
MaxCalls == 2
\* number of getStockKLine requests the clients send
MaxGets == 2
\* last instant of the wall clock (in ticks)
MaxTime == 2
\* number of rows of stock_data (prefix of AllRows)
MaxRows == 2
\* last calendar day a client sends as dataDate
MaxDay == 1
\* number of rows of stock_data when the worker pool is studied
MaxPoolRows == 5
\* number of bars the year requests of one fetch accumulate in allData
MaxBars == 3
\* last calendar day a bar or a requested range names
MaxBarDate == 2
\* last close price of a bar
MaxClose == 2
\* last calendar year a daily fetch or the clock names
MaxYear == 2
\* last day the calendar procedures are asked about, counted from
\* 2024-01-01 (day 0)
MaxCalDay == 365
\* getBlockData requests in flight
MaxBlockCalls == 2
\* last date a getBlockData request asks about
MaxBlockDay == 2
\* users that register
MaxUsers == 3
\* days per calendar year for the year loop (the first is Y-01-01, the last
\* Y-12-31)
DaysPerYear == 2

(* ----------------------- program constants ----------------------------- *)
\* const concurrency = 3
concurrency == 3
\* ticks per calendar day (24 h)
TicksPerDay == 2

Calls == 1..MaxCalls
Gets == 1..MaxGets
Workers == 1..concurrency

(* ------------------------------ time ----------------------------------- *)
\* offsets of the server's local zone from UTC, in ticks (west, UTC, east)
TZOffsets == {0 - 1, 0, 1}

\* Date.prototype.getFullYear/getMonth/getDate: calendar day of an instant in
\* a zone `off` ticks east of UTC
LocalDay(t, off) == (t + off) \div TicksPerDay

\* new Date(y, m, d) and setHours(0, 0, 0, 0): the instant of local midnight
\* of calendar day d
LocalMidnight(d, off) == d * TicksPerDay - off

\* new Date("YYYY-MM-DD"): a date-only string is parsed as UTC midnight
ParseDate(d) == d * TicksPerDay

\* dataDate = new Date(input.dataDate); dataDate.setHours(0, 0, 0, 0)
QueryDate(d, off) == LocalMidnight(LocalDay(ParseDate(d), off), off)

\* today = new Date(now.getFullYear(), now.getMonth(), now.getDate())
Today(t, off) == LocalMidnight(LocalDay(t, off), off)

\* the dataDate strings the clients send (calendar days)
Days == 1..MaxDay

(* ------------------------------ data ----------------------------------- *)
\* rows of stock_data (code, name) in insertion order; the third lists the
\* code of the second under another display name, the fourth repeats the
\* first (the same stock on another date)
AllRows == << [code |-> <<6, 0, 1>>, name |-> "A"],
              [code |-> <<0, 0, 1>>, name |-> "B"],
              [code |-> <<0, 0, 1>>, name |-> "C"],
              [code |-> <<6, 0, 1>>, name |-> "A"],
              [code |-> <<0, 0, 2>>, name |-> "D"] >>

\* s.code.startsWith("6") ? `sh${s.code}` : `sz${s.code}`
ToSymbol(code) == IF Head(code) = 6 THEN <<"sh", code>> ELSE <<"sz", code>>

Min(a, b) == IF a < b THEN a ELSE b

\* the rows stock_data holds
NumRows == Min(MaxRows, Len(AllRows))

\* the symbols stock_info can hold a row for
Symbols == {ToSymbol(AllRows[i].code) : i \in 1..Len(AllRows)}

\* a row of stock_info; NoRec stands for "no row"
NoRec == [updatedAt |-> 0 - 1, daily |-> "none"]
\* what a fetchKLineFromQQ call returns: bars, or [] when the upstream failed
FetchResults == {"bars", "empty"}

\* fetchKLineFromQQ(symbol, "daily"): every failure of a year's request is
\* caught and skipped, so the call never throws; with no usable data it
\* returns []
FetchKLineFromQQ(symbol, down) == IF symbol \in down THEN "empty" ELSE "bars"

HasRec(r) == r # NoRec

\* needsUpdateList filter: !existing || !existing.updatedAt ||
\*                         new Date(existing.updatedAt) < queryDate
\* (updated_at is NOT NULL and read as a Date object, which is never falsy)
NeedsUpdate(existing, queryDate) ==
    IF ~HasRec(existing) THEN TRUE
    ELSE existing.updatedAt < queryDate

\* Faulty variant of NeedsUpdateSingle: <= instead of <, so a row stamped at
\* today's midnight counts as stale.
NeedsUpdateSingleOffByOne(forceUpdate, stock, today) ==
    forceUpdate \/ ~HasRec(stock) \/ stock.updatedAt <= today

\* getStockKLine: forceUpdate || !stock || !stock.updatedAt || updatedAt < today
NeedsUpdateSingle(forceUpdate, stock, today) ==
    forceUpdate \/ ~HasRec(stock) \/ stock.updatedAt < today

(* ------------------------------ state ---------------------------------- *)
VARIABLES
    tz,                \* offset of the server's local zone (process environment)
    now,               \* wall clock
    stockData,         \* table stock_data: sequence of rows (code, name)
    stockInfo,         \* table stock_info: symbol -> row or NoRec
    storeFails,        \* symbols whose stock_info writes raise a store error
    batchUpdateStatus, \* the module-level status object
    pc,                \* per checkAndUpdateKLine request: where it is suspended
    dataDate,          \* per request: input.dataDate (a calendar day)
    reply,             \* per request: the reply returned to the caller
    allStockCodes,     \* per request: result of the selectDistinct
    existingMap,       \* per request: the symbols that are keys of existingMap
    needsUpdateList,   \* per request: the filtered list
    queue,             \* per request: the work queue of its job
    worker,            \* per request and worker: position, item, fetched data
    get,               \* per getStockKLine request: position and locals
    upstreamDown,      \* symbols for which the provider gives no usable data
    codec              \* the dedup/filter stage of fetchKLineFromQQ: its locals

vars == << tz, now, stockData, stockInfo, storeFails, batchUpdateStatus, pc,
           dataDate, reply, allStockCodes, existingMap, needsUpdateList,
           queue, worker, get, upstreamDown, codec >>

\* what no request handler assigns: the process environment, the provider's
\* state and the locals of the fetcher's pure stages
outside == << tz, upstreamDown, codec >>

jobLocals == << allStockCodes, existingMap, needsUpdateList, queue, worker >>
store == << stockData, stockInfo, storeFails >>

NoReply == [triggered |-> FALSE, message |-> "none"]
NoItem == [symbol |-> <<"none", <<>> >>, name |-> "none"]
IdleWorker == [pc |-> "none", stock |-> NoItem, throws |-> FALSE,
               daily |-> "none"]
IdleGet == [pc |-> "idle", symbol |-> <<"none", <<>> >>, forceUpdate |-> FALSE,
            stock |-> NoRec, now |-> 0, throws |-> FALSE, result |-> "none",
            daily |-> "none"]
NoCodec == [pc |-> "none", allData |-> <<>>, startDate |-> 0, endDate |-> 0,
            result |-> <<>>, again |-> <<>>]

Init ==
    /\ tz \in TZOffsets
    /\ now = 0
    /\ stockData \in {SubSeq(AllRows, 1, k) : k \in 0..NumRows}
    /\ stockInfo = [s \in Symbols |-> NoRec]
    /\ storeFails \in {{}, {ToSymbol(AllRows[1].code)}}
    /\ batchUpdateStatus = [isRunning |-> FALSE, total |-> 0, completed |-> 0,
                            failed |-> 0, startTime |-> 0 - 1]
    /\ pc = [c \in Calls |-> "idle"]
    /\ dataDate = [c \in Calls |-> 0]
    /\ reply = [c \in Calls |-> NoReply]
    /\ allStockCodes = [c \in Calls |-> <<>>]
    /\ existingMap = [c \in Calls |-> {}]
    /\ needsUpdateList = [c \in Calls |-> <<>>]
    /\ queue = [c \in Calls |-> <<>>]
    /\ worker = [c \in Calls |-> [w \in Workers |-> IdleWorker]]
    /\ get = [g \in Gets |-> IdleGet]
    /\ upstreamDown = {}
    /\ codec = NoCodec

\* No handler is in the middle of a synchronous stretch: the event loop is
\* free to run another continuation.
LoopFree == \A c \in Calls : pc[c] # "launch"

(* ----------------------- checkAndUpdateKLine --------------------------- *)
\* Faulty variant of CheckAndUpdateKLine: the running check of line 536 is
\* missing and the request restarts the counters.
CheckAndUpdateKLineNoGuard(c, d) ==
    /\ LoopFree
    /\ pc[c] = "idle"
    /\ \A c2 \in Calls : c2 < c => pc[c2] # "idle"
    /\ dataDate' = [dataDate EXCEPT ![c] = d]
    /\ pc' = [pc EXCEPT ![c] = "latest"]
    /\ batchUpdateStatus' = [batchUpdateStatus EXCEPT !.completed = 0,
                                                      !.failed = 0]
    /\ UNCHANGED << outside, now, store, reply, jobLocals, get >>

\* lines 536-552: the running check, then the stock_info query is issued
CheckAndUpdateKLine(c, d) ==
    /\ LoopFree
    /\ pc[c] = "idle"
    /\ \A c2 \in Calls : c2 < c => pc[c2] # "idle"
    /\ IF batchUpdateStatus.isRunning
       THEN /\ reply' = [reply EXCEPT ![c] =
                   [triggered |-> FALSE, message |-> "already running"]]
            /\ pc' = [pc EXCEPT ![c] = "done"]
            /\ UNCHANGED dataDate
       ELSE /\ dataDate' = [dataDate EXCEPT ![c] = d]
            /\ pc' = [pc EXCEPT ![c] = "latest"]
            /\ UNCHANGED reply
    /\ UNCHANGED << outside, now, store, batchUpdateStatus, jobLocals, get >>

\* .select({updatedAt}).from(stockInfo).orderBy(stockInfo.updatedAt).limit(1):
\* ORDER BY is ascending, so the row read is the one refreshed longest ago
LatestStock(info) ==
    LET rows == {s \in Symbols : HasRec(info[s])}
    IN  IF rows = {} THEN NoRec
        ELSE info[CHOOSE s \in rows :
                      \A s2 \in rows : info[s].updatedAt <= info[s2].updatedAt]

\* line 557: !latestUpdatedAt || dataDate > new Date(latestUpdatedAt)
ShouldTrigger(latest, queryDate) ==
    ~HasRec(latest) \/ queryDate > latest.updatedAt

\* Faulty variant of LatestResume: the handler awaits the batch job
\* (await batchUpdateAllStocksKLine(dataDate)), so no reply is returned here.
LatestResumeAwaits(c) ==
    /\ LoopFree
    /\ pc[c] = "latest"
    /\ IF ShouldTrigger(LatestStock(stockInfo), QueryDate(dataDate[c], tz))
       THEN /\ pc' = [pc EXCEPT ![c] =
                        IF batchUpdateStatus.isRunning THEN "done" ELSE "codes"]
            /\ dataDate' = [dataDate EXCEPT ![c] =
                        IF batchUpdateStatus.isRunning THEN 0 ELSE @]
            /\ reply' = IF batchUpdateStatus.isRunning
                        THEN [reply EXCEPT ![c] =
                                 [triggered |-> TRUE, message |-> "started"]]
                        ELSE reply
       ELSE /\ pc' = [pc EXCEPT ![c] = "done"]
            /\ dataDate' = [dataDate EXCEPT ![c] = 0]
            /\ reply' = [reply EXCEPT ![c] =
                   [triggered |-> FALSE, message |-> "up to date"]]
    /\ UNCHANGED << outside, now, store, batchUpdateStatus, jobLocals, get >>

\* lines 554-572 with lines 147-156 of batchUpdateAllStocksKLine, which runs
\* synchronously up to its first await before the reply is returned
LatestResume(c) ==
    /\ LoopFree
    /\ pc[c] = "latest"
    /\ IF ShouldTrigger(LatestStock(stockInfo), QueryDate(dataDate[c], tz))
       THEN /\ pc' = [pc EXCEPT ![c] =
                        IF batchUpdateStatus.isRunning THEN "done" ELSE "codes"]
            /\ dataDate' = [dataDate EXCEPT ![c] =
                        IF batchUpdateStatus.isRunning THEN 0 ELSE @]
            /\ reply' = [reply EXCEPT ![c] =
                   [triggered |-> TRUE, message |-> "started"]]
       ELSE /\ pc' = [pc EXCEPT ![c] = "done"]
            /\ dataDate' = [dataDate EXCEPT ![c] = 0]
            /\ reply' = [reply EXCEPT ![c] =
                   [triggered |-> FALSE, message |-> "up to date"]]
    /\ UNCHANGED << outside, now, store, batchUpdateStatus, jobLocals, get >>

(* --------------------- batchUpdateAllStocksKLine ----------------------- *)
RECURSIVE Distinct(_)
\* selectDistinct: each (code, name) pair once, in first-occurrence order
Distinct(rows) ==
    IF rows = <<>> THEN <<>>
    ELSE LET init == Distinct(SubSeq(rows, 1, Len(rows) - 1))
             last == rows[Len(rows)]
         IN  IF \E i \in 1..Len(init) : init[i] = last THEN init
             ELSE Append(init, last)

\* lines 164-167: allStockCodes.map(s => ({symbol: ..., name: s.name}))
StocksToUpdate(codes) ==
    [i \in 1..Len(codes) |->
        [symbol |-> ToSymbol(codes[i].code), name |-> codes[i].name]]

\* lines 173-177: stocksToUpdate.filter(...)
NeedsUpdateList(stocks, existing, qd) ==
    LET Due(s) == NeedsUpdate(existing[s.symbol], qd)
    IN  SelectSeq(stocks, Due)

\* lines 154-170: the stock_data listing arrives; empty listing returns,
\* otherwise the stock_info query is issued
CodesResume(c) ==
    /\ LoopFree
    /\ pc[c] = "codes"
    /\ IF Len(Distinct(stockData)) = 0
       THEN /\ pc' = [pc EXCEPT ![c] = "done"]
            /\ dataDate' = [dataDate EXCEPT ![c] = 0]
            /\ UNCHANGED allStockCodes
       ELSE /\ pc' = [pc EXCEPT ![c] = "info"]
            /\ allStockCodes' = [allStockCodes EXCEPT ![c] = Distinct(stockData)]
            /\ UNCHANGED dataDate
    /\ UNCHANGED << outside, now, store, batchUpdateStatus, reply,
                    existingMap, needsUpdateList, queue, worker, get >>

\* Faulty variant of StartedStatus: the old object is kept and only marked
\* running, so completed and failed of the previous job survive.
StartedStatusKeepsCounters(list, t) ==
    [batchUpdateStatus EXCEPT !.isRunning = TRUE, !.total = Len(list),
                              !.startTime = t]

\* lines 185-191: batchUpdateStatus = { isRunning: true, ... }
StartedStatus(list, t) ==
    [isRunning |-> TRUE, total |-> Len(list), completed |-> 0, failed |-> 0,
     startTime |-> t]

\* lines 170-197: the stock_info rows arrive; the due list is filtered; an
\* empty list returns, otherwise the status object is replaced and the queue
\* is seeded.  The handler goes on synchronously into LaunchWorkers.
InfoResume(c) ==
    /\ LoopFree
    /\ pc[c] = "info"
    /\ LET list == NeedsUpdateList(StocksToUpdate(allStockCodes[c]), stockInfo,
                                   QueryDate(dataDate[c], tz))
       IN  IF Len(list) = 0
           THEN /\ pc' = [pc EXCEPT ![c] = "done"]
                /\ dataDate' = [dataDate EXCEPT ![c] = 0]
                /\ allStockCodes' = [allStockCodes EXCEPT ![c] = <<>>]
                /\ UNCHANGED << now, batchUpdateStatus, existingMap,
                                needsUpdateList, queue >>
           ELSE /\ existingMap' = [existingMap EXCEPT ![c] =
                                      {s \in Symbols : HasRec(stockInfo[s])}]
                /\ needsUpdateList' = [needsUpdateList EXCEPT ![c] = list]
                /\ \E t \in now..MaxTime :
                      /\ now' = t
                      /\ batchUpdateStatus' = StartedStatus(list, t)
                /\ queue' = [queue EXCEPT ![c] = list]
                /\ pc' = [pc EXCEPT ![c] = "launch"]
                /\ UNCHANGED << dataDate, allStockCodes >>
    /\ UNCHANGED << outside, store, reply, worker, get >>

\* worker(): while (queue.length > 0) { stock = queue.shift(); ... await fetch
\* The k-th worker started finds k-1 items already taken.
FirstPop(q, w) ==
    IF w <= Len(q)
    THEN [IdleWorker EXCEPT !.pc = "fetch", !.stock = q[w]]
    ELSE [IdleWorker EXCEPT !.pc = "done"]

\* line 249: Array.from({length: concurrency}, () => worker()): each worker
\* runs synchronously to its first await
LaunchWorkers(c) ==
    /\ pc[c] = "launch"
    /\ worker' = [worker EXCEPT ![c] = [w \in Workers |-> FirstPop(queue[c], w)]]
    /\ queue' = [queue EXCEPT ![c] =
                   SubSeq(queue[c], Min(concurrency, Len(queue[c])) + 1,
                          Len(queue[c]))]
    /\ pc' = [pc EXCEPT ![c] = "workers"]
    /\ UNCHANGED << outside, now, store, batchUpdateStatus, dataDate, reply,
                    allStockCodes, existingMap, needsUpdateList, get >>

\* Faulty variant of StoreWrite: an update keeps the bars the row had and
\* adds the fetched ones.
StoreWriteMerges(info, fails, isUpdate, symbol, row) ==
    IF symbol \in fails THEN [throws |-> TRUE, info |-> info]
    ELSE IF isUpdate
         THEN [throws |-> FALSE,
               info |-> IF HasRec(info[symbol])
                        THEN [info EXCEPT ![symbol] =
                                 [row EXCEPT !.daily = "merged"]]
                        ELSE info]
         ELSE IF HasRec(info[symbol]) THEN [throws |-> TRUE, info |-> info]
              ELSE [throws |-> FALSE, info |-> [info EXCEPT ![symbol] = row]]

\* the outcome of db.update(...).where(symbol) / db.insert(...): whether it
\* throws, and the table afterwards.  An update of a missing row changes
\* nothing; an insert of a present symbol violates the primary key.
StoreWrite(info, fails, isUpdate, symbol, row) ==
    IF symbol \in fails THEN [throws |-> TRUE, info |-> info]
    ELSE IF isUpdate
         THEN [throws |-> FALSE,
               info |-> IF HasRec(info[symbol])
                        THEN [info EXCEPT ![symbol] = row] ELSE info]
         ELSE IF HasRec(info[symbol]) THEN [throws |-> TRUE, info |-> info]
              ELSE [throws |-> FALSE, info |-> [info EXCEPT ![symbol] = row]]

\* lines 213-235 up to the await of the store call: fetchKLineFromQQ has
\* returned (it catches every upstream failure and returns []), now is read
\* and the update or insert goes to the database, which executes it
FetchDone(c, w) ==
    /\ LoopFree
    /\ pc[c] = "workers"
    /\ worker[c][w].pc = "fetch"
    /\ \E t \in now..MaxTime :
          LET sym == worker[c][w].stock.symbol
              d == FetchKLineFromQQ(sym, upstreamDown)
              out == StoreWrite(stockInfo, storeFails, sym \in existingMap[c],
                                sym, [updatedAt |-> t, daily |-> d])
          IN  /\ now' = t
              /\ stockInfo' = out.info
              /\ worker' = [worker EXCEPT ![c][w] =
                     [IdleWorker EXCEPT !.pc = "write", !.throws = out.throws,
                                        !.daily = d]]
    /\ UNCHANGED << outside, stockData, storeFails, batchUpdateStatus, pc, dataDate,
                    reply, allStockCodes, existingMap, needsUpdateList, queue,
                    get >>

\* Faulty variant of WriteDone: no try/catch around the item, so a store
\* error rejects the worker's promise and the worker never returns.
WriteDoneNoCatch(c, w) ==
    /\ LoopFree
    /\ pc[c] = "workers"
    /\ worker[c][w].pc = "write"
    /\ IF worker[c][w].throws
       THEN /\ worker' = [worker EXCEPT ![c][w] =
                             [IdleWorker EXCEPT !.pc = "rejected"]]
            /\ UNCHANGED batchUpdateStatus
       ELSE /\ worker' = [worker EXCEPT ![c][w] =
                             [IdleWorker EXCEPT !.pc = "sleep"]]
            /\ batchUpdateStatus' =
                  [batchUpdateStatus EXCEPT !.completed = @ + 1]
    /\ UNCHANGED << outside, now, store, pc, dataDate, reply, allStockCodes,
                    existingMap, needsUpdateList, queue, get >>

\* Faulty variant of WriteDone: the catch block continues the loop, so a
\* failed item is followed by the next pop without the pacing timer.
WriteDoneCatchContinues(c, w) ==
    /\ LoopFree
    /\ pc[c] = "workers"
    /\ worker[c][w].pc = "write"
    /\ IF worker[c][w].throws
       THEN /\ batchUpdateStatus' =
                  [batchUpdateStatus EXCEPT !.failed = @ + 1]
            /\ IF Len(queue[c]) > 0
               THEN /\ worker' = [worker EXCEPT ![c][w] =
                          [IdleWorker EXCEPT !.pc = "fetch",
                                             !.stock = Head(queue[c])]]
                    /\ queue' = [queue EXCEPT ![c] = Tail(queue[c])]
               ELSE /\ worker' = [worker EXCEPT ![c][w] =
                          [IdleWorker EXCEPT !.pc = "done"]]
                    /\ UNCHANGED queue
       ELSE /\ batchUpdateStatus' =
                  [batchUpdateStatus EXCEPT !.completed = @ + 1]
            /\ worker' = [worker EXCEPT ![c][w] =
                             [IdleWorker EXCEPT !.pc = "sleep"]]
            /\ UNCHANGED queue
    /\ UNCHANGED << outside, now, store, pc, dataDate, reply, allStockCodes,
                    existingMap, needsUpdateList, get >>

\* lines 237-244: the store call settles; completed++ or, in the catch,
\* failed++; then the pacing timer is set
WriteDone(c, w) ==
    /\ LoopFree
    /\ pc[c] = "workers"
    /\ worker[c][w].pc = "write"
    /\ batchUpdateStatus' =
          IF worker[c][w].throws
          THEN [batchUpdateStatus EXCEPT !.failed = @ + 1]
          ELSE [batchUpdateStatus EXCEPT !.completed = @ + 1]
    /\ worker' = [worker EXCEPT ![c][w] = [IdleWorker EXCEPT !.pc = "sleep"]]
    /\ UNCHANGED << outside, now, store, pc, dataDate, reply, allStockCodes,
                    existingMap, needsUpdateList, queue, get >>

\* Faulty variant of Wake: the worker reads the head of the queue (queue[0])
\* without removing it.
WakePeeks(c, w) ==
    /\ LoopFree
    /\ pc[c] = "workers"
    /\ worker[c][w].pc = "sleep"
    /\ IF Len(queue[c]) > 0
       THEN worker' = [worker EXCEPT ![c][w] =
               [IdleWorker EXCEPT !.pc = "fetch", !.stock = Head(queue[c])]]
       ELSE worker' = [worker EXCEPT ![c][w] = [IdleWorker EXCEPT !.pc = "done"]]
    /\ UNCHANGED << outside, now, store, batchUpdateStatus, pc, dataDate, reply,
                    allStockCodes, existingMap, needsUpdateList, queue, get >>

\* line 244 and the loop head: the 500 ms timer fires; the worker takes the
\* next item or returns
Wake(c, w) ==
    /\ LoopFree
    /\ pc[c] = "workers"
    /\ worker[c][w].pc = "sleep"
    /\ IF Len(queue[c]) > 0
       THEN /\ worker' = [worker EXCEPT ![c][w] =
                  [IdleWorker EXCEPT !.pc = "fetch", !.stock = Head(queue[c])]]
            /\ queue' = [queue EXCEPT ![c] = Tail(queue[c])]
       ELSE /\ worker' = [worker EXCEPT ![c][w] = [IdleWorker EXCEPT !.pc = "done"]]
            /\ UNCHANGED queue
    /\ UNCHANGED << outside, now, store, batchUpdateStatus, pc, dataDate, reply,
                    allStockCodes, existingMap, needsUpdateList, get >>

\* lines 249-252: Promise.all settles; batchUpdateStatus.isRunning = false
Finish(c) ==
    /\ LoopFree
    /\ pc[c] = "workers"
    /\ \A w \in Workers : worker[c][w].pc = "done"
    /\ batchUpdateStatus' = [batchUpdateStatus EXCEPT !.isRunning = FALSE]
    /\ pc' = [pc EXCEPT ![c] = "done"]
    /\ dataDate' = [dataDate EXCEPT ![c] = 0]
    /\ allStockCodes' = [allStockCodes EXCEPT ![c] = <<>>]
    /\ existingMap' = [existingMap EXCEPT ![c] = {}]
    /\ needsUpdateList' = [needsUpdateList EXCEPT ![c] = <<>>]
    /\ worker' = [worker EXCEPT ![c] = [w \in Workers |-> IdleWorker]]
    /\ UNCHANGED << outside, now, store, reply, queue, get >>

(* ------------------------- getBatchUpdateStatus ------------------------ *)
\* lines 576-578: the query returns the status object as it is
GetBatchUpdateStatus == batchUpdateStatus

(* --------------------------- getStockKLine ----------------------------- *)
\* lines 604-611: the request arrives and the stock_info row is queried
GetStockKLine(g, symbol, forceUpdate) ==
    /\ LoopFree
    /\ get[g].pc = "idle"
    /\ \A g2 \in Gets : g2 < g => get[g2].pc # "idle"
    /\ get' = [get EXCEPT ![g] = [@ EXCEPT !.pc = "read", !.symbol = symbol,
                                            !.forceUpdate = forceUpdate]]
    /\ UNCHANGED << outside, now, store, batchUpdateStatus, pc, dataDate, reply,
                    jobLocals >>

\* lines 613-635: the row arrives; now and today are read; a fresh row is
\* returned from the cache, otherwise the fetch is issued
GetRead(g) ==
    /\ LoopFree
    /\ get[g].pc = "read"
    /\ \E t \in now..MaxTime :
          /\ now' = t
          /\ LET stock == stockInfo[get[g].symbol]
             IN  IF NeedsUpdateSingle(get[g].forceUpdate, stock, Today(t, tz))
                 THEN get' = [get EXCEPT ![g] =
                                 [@ EXCEPT !.pc = "fetch", !.stock = stock,
                                           !.now = t, !.forceUpdate = FALSE]]
                 ELSE get' = [get EXCEPT ![g] =
                                 [IdleGet EXCEPT !.pc = "done", !.stock = stock,
                                                 !.result = "cached",
                                                 !.daily = stock.daily]]
    /\ UNCHANGED << outside, store, batchUpdateStatus, pc, dataDate, reply,
                    jobLocals >>

\* Faulty variant of GetFetchDone: a fetch that brought nothing fails the
\* request.
GetFetchDoneRaises(g) ==
    /\ LoopFree
    /\ get[g].pc = "fetch"
    /\ LET me == get[g]
           d == FetchKLineFromQQ(me.symbol, upstreamDown)
           out == StoreWrite(stockInfo, storeFails, HasRec(me.stock),
                             me.symbol, [updatedAt |-> me.now, daily |-> d])
       IN  IF d = "empty"
           THEN /\ stockInfo' = stockInfo
                /\ get' = [get EXCEPT ![g] =
                       [IdleGet EXCEPT !.pc = "done", !.result = "error"]]
           ELSE /\ stockInfo' = out.info
                /\ get' = [get EXCEPT ![g] =
                       [me EXCEPT !.pc = "write", !.throws = out.throws,
                                  !.stock = NoRec, !.daily = d]]
    /\ UNCHANGED << outside, now, stockData, storeFails, batchUpdateStatus, pc,
                    dataDate, reply, jobLocals >>

\* lines 634-663: the fetch has returned (an upstream failure as []); the
\* update or insert goes to the database, which executes it, with
\* updatedAt: now as read in GetRead
GetFetchDone(g) ==
    /\ LoopFree
    /\ get[g].pc = "fetch"
    /\ LET me == get[g]
           d == FetchKLineFromQQ(me.symbol, upstreamDown)
           out == StoreWrite(stockInfo, storeFails, HasRec(me.stock),
                             me.symbol, [updatedAt |-> me.now, daily |-> d])
       IN  /\ stockInfo' = out.info
           /\ get' = [get EXCEPT ![g] =
                  [me EXCEPT !.pc = "write", !.throws = out.throws,
                             !.stock = NoRec, !.daily = d]]
    /\ UNCHANGED << outside, now, stockData, storeFails, batchUpdateStatus, pc,
                    dataDate, reply, jobLocals >>

\* lines 643-676: the store call settles; a throw fails the request,
\* otherwise the response carries the fetched bars (daily: klineData)
GetWriteDone(g) ==
    /\ LoopFree
    /\ get[g].pc = "write"
    /\ get' = [get EXCEPT ![g] =
                 [IdleGet EXCEPT !.pc = "done",
                                 !.result = IF get[g].throws THEN "error"
                                            ELSE "fetched",
                                 !.daily = IF get[g].throws THEN "none"
                                           ELSE get[g].daily]]
    /\ UNCHANGED << outside, now, store, batchUpdateStatus, pc, dataDate, reply,
                    jobLocals >>

(* ------------------- fetchKLineFromQQ: dedup and filter ---------------- *)
\* a bar as pushed to allData (lines 336-343); close stands for the prices
Bars == [date : 0..MaxBarDate, close : 1..MaxClose]

\* the sequences over S of length at most n
BoundedSeq(S, n) == UNION {[1..k -> S] : k \in 0..n}

\* Faulty variant of MapSet: a key that is present keeps its first value.
MapSetKeepsFirst(m, d) ==
    IF \E i \in 1..Len(m) : m[i].date = d.date THEN m
    ELSE Append(m, d)

\* Map.prototype.set(d.date, d) on a Map held as the sequence of its values
\* in insertion order: a present key keeps its position and gets the new
\* value, a new key is appended
MapSet(m, d) ==
    IF \E i \in 1..Len(m) : m[i].date = d.date
    THEN [i \in 1..Len(m) |-> IF m[i].date = d.date THEN d ELSE m[i]]
    ELSE Append(m, d)

RECURSIVE UniqueData(_)
\* line 353: Array.from(new Map(allData.map((d) => [d.date, d])).values())
UniqueData(allData) ==
    IF allData = <<>> THEN <<>>
    ELSE MapSet(UniqueData(SubSeq(allData, 1, Len(allData) - 1)),
                allData[Len(allData)])

\* Faulty variant of InRange: dt < endDt, so the last day is left out.
InRangeOpenEnd(d, startDate, endDate) ==
    /\ ParseDate(d.date) >= ParseDate(startDate)
    /\ ParseDate(d.date) < ParseDate(endDate)

\* lines 354-360: startDt and endDt are parsed from the requested range, dt
\* from the bar; the bar is kept when dt >= startDt && dt <= endDt
InRange(d, startDate, endDate) ==
    /\ ParseDate(d.date) >= ParseDate(startDate)
    /\ ParseDate(d.date) <= ParseDate(endDate)

\* lines 352-360: what the daily branch returns for the accumulated allData
DedupAndFilter(allData, startDate, endDate) ==
    LET Keep(d) == InRange(d, startDate, endDate)
    IN  SelectSeq(UniqueData(allData), Keep)

\* lines 412-419: the weekly and monthly branch filters the decoded rows by
\* the same test, without a dedup
RangeFilter(result, startDate, endDate) ==
    LET Keep(d) == InRange(d, startDate, endDate)
    IN  SelectSeq(result, Keep)

\* lines 398-419 run on the rows of the single weekly or monthly response
FilterStep ==
    /\ codec.pc = "start"
    /\ codec' = [codec EXCEPT !.pc = "filtered",
                    !.result = RangeFilter(codec.allData, codec.startDate,
                                           codec.endDate)]
    /\ UNCHANGED << tz, upstreamDown, now, store, batchUpdateStatus, pc,
                    dataDate, reply, jobLocals, get >>

\* lines 352-360 run on the bars the year requests have accumulated
DedupStep ==
    /\ codec.pc = "start"
    /\ codec' = [codec EXCEPT !.pc = "once",
                    !.result = DedupAndFilter(codec.allData, codec.startDate,
                                              codec.endDate)]
    /\ UNCHANGED << tz, upstreamDown, now, store, batchUpdateStatus, pc,
                    dataDate, reply, jobLocals, get >>

\* the same stage run on its own result
DedupAgain ==
    /\ codec.pc = "once"
    /\ codec' = [codec EXCEPT !.pc = "twice",
                    !.again = DedupAndFilter(codec.result, codec.startDate,
                                             codec.endDate)]
    /\ UNCHANGED << tz, upstreamDown, now, store, batchUpdateStatus, pc,
                    dataDate, reply, jobLocals, get >>

(* --------------------- fetchKLineFromQQ: year loop --------------------- *)
\* everything but the locals of fetchKLineFromQQ
server == << tz, upstreamDown, now, store, batchUpdateStatus, pc, dataDate,
             reply, jobLocals, get >>

\* Number.parseInt(s.slice(0, 4), 10): the calendar year of a date
YearOf(d) == d \div DaysPerYear
\* `${year}-01-01`
YearStart(year) == year * DaysPerYear
\* `${year + 1}-12-31`
YearEnd(year) == (year + 1) * DaysPerYear + DaysPerYear - 1

\* what the provider answers to one year's request: usable data, or one of
\* the failures: the request rejects, the text has no "={", the text after
\* the marker is not JSON, the JSON has no data for the symbol
Outcomes == {"ok", "network", "nomarker", "badjson", "nosymbol"}

\* the rows of a usable answer for the window [from, to]: the bars the
\* provider has, one per day, stamped with the year of the request
ProviderRows(year, from, to) ==
    LET days == {d \in 0..YearEnd(MaxYear) : from <= d /\ d <= to}
        n == Cardinality(days)
        first == CHOOSE d \in days \cup {0} : \A e \in days : d <= e
    IN  [i \in 1..n |-> [date |-> first + i - 1, close |-> year + 1]]

\* Faulty variant of RangeEnd: the + 1 is missing, so the last year is not
\* requested.
RangeEndExclusive(endDate, currentYear) ==
    Min(YearOf(endDate), currentYear)

\* lines 293-295: rangeEnd = Math.min(endYear, currentYear) + 1
RangeEnd(endDate, currentYear) ==
    Min(YearOf(endDate), currentYear) + 1

\* lines 266-299: the daily branch is entered; the loop starts at rangeStart
\* with allData empty
FetchStart ==
    /\ codec.pc = "call"
    /\ codec' = [codec EXCEPT !.pc = "loop", !.year = YearOf(codec.startDate),
                    !.rangeEnd = RangeEnd(codec.endDate, codec.currentYear)]
    /\ UNCHANGED server

\* Faulty variant of YearRequest: no try/catch around the request, so a
\* rejected request or a JSON.parse error leaves the function.
YearRequestNoCatch ==
    /\ codec.pc = "loop"
    /\ codec.year < codec.rangeEnd
    /\ LET year == codec.year
           from == YearStart(year)
           to == YearEnd(year)
           asked == Append(codec.requests,
                           [year |-> year, from |-> from, to |-> to])
           answer == codec.responses[year]
       IN  IF answer \in {"network", "badjson"}
           THEN codec' = [codec EXCEPT !.pc = "threw", !.requests = asked]
           ELSE IF answer \in {"nomarker", "nosymbol"}
           THEN codec' = [codec EXCEPT !.year = year + 1, !.requests = asked]
           ELSE codec' = [codec EXCEPT !.year = year + 1, !.requests = asked,
                             !.allData = @ \o ProviderRows(year, from, to)]
    /\ UNCHANGED server

\* lines 299-350: one pass of the loop: the request for `year` is sent and
\* awaited; a rejected fetch and a JSON.parse error are caught (continue),
\* a text without "={" and a payload without data for the symbol continue,
\* otherwise the rows are pushed to allData
YearRequest ==
    /\ codec.pc = "loop"
    /\ codec.year < codec.rangeEnd
    /\ LET year == codec.year
           from == YearStart(year)
           to == YearEnd(year)
           asked == Append(codec.requests,
                           [year |-> year, from |-> from, to |-> to])
           answer == codec.responses[year]
       IN  IF answer \in {"network", "badjson"}
           THEN codec' = [codec EXCEPT !.year = year + 1, !.requests = asked]
           ELSE IF answer \in {"nomarker", "nosymbol"}
           THEN codec' = [codec EXCEPT !.year = year + 1, !.requests = asked]
           ELSE codec' = [codec EXCEPT !.year = year + 1, !.requests = asked,
                             !.allData = @ \o ProviderRows(year, from, to)]
    /\ UNCHANGED server

\* lines 352-360: the loop has ended; dedup, filter and return
YearsDone ==
    /\ codec.pc = "loop"
    /\ codec.year >= codec.rangeEnd
    /\ codec' = [codec EXCEPT !.pc = "returned",
                    !.result = DedupAndFilter(codec.allData, codec.startDate,
                                              codec.endDate)]
    /\ UNCHANGED server

(* ---------------- fetchKLineFromQQ: adjustment variant ----------------- *)
\* the period keys of the provider payload (daily: the literal keys of lines
\* 323-330; weekly and monthly: periodKey)
PeriodKeys == {"day", "week", "month"}
\* adjust: "" | "qfq" | "hfq"
Adjusts == {"", "qfq", "hfq"}

\* Array.prototype.find over a list of keys: the first key whose value in
\* the payload is truthy, "none" for undefined
RECURSIVE Find(_, _)
Find(keys, present) ==
    IF keys = <<>>
    THEN "none"
    ELSE IF Head(keys) \in present
    THEN Head(keys)
    ELSE Find(Tail(keys), present)

\* lines 321-332, daily branch: the key whose rows are read, given the keys
\* with a truthy value in dataJson
SelectDaily(adjust, present) ==
    IF adjust = "hfq" /\ "hfqday" \in present
    THEN "hfqday"
    ELSE IF adjust = "qfq" /\ "qfqday" \in present
    THEN "qfqday"
    ELSE IF "day" \in present
    THEN "day"
    ELSE Find(<< "qfqday", "hfqday", "day" >>, present)

\* lines 390-396, weekly/monthly branch
SelectPeriod(adjust, periodKey, present) ==
    LET dataKey == IF adjust # "" THEN adjust \o periodKey ELSE periodKey
    IN  IF dataKey \in present
        THEN dataKey
        ELSE Find(<< "qfq" \o periodKey, "hfq" \o periodKey, periodKey >>,
                  present)

\* the daily branch picks the rows of one year's payload
SelectDailyStep ==
    /\ codec.pc = "decode"
    /\ codec.periodKey = "day"
    /\ codec' = [codec EXCEPT !.pc = "selected",
                    !.key = SelectDaily(codec.adjust, codec.present)]
    /\ UNCHANGED server

\* the weekly/monthly branch picks the rows of its payload
SelectPeriodStep ==
    /\ codec.pc = "decode"
    /\ codec.periodKey # "day"
    /\ codec' = [codec EXCEPT !.pc = "selected",
                    !.key = SelectPeriod(codec.adjust, codec.periodKey,
                                         codec.present)]
    /\ UNCHANGED server

(* ------------------------------ calendar ------------------------------- *)
\* the date strings the calendar procedures are asked about: day 0 is
\* "2024-01-01"
CalDays == 0..MaxCalDay

IsLeap(y) == (y % 4 = 0 /\ y % 100 # 0) \/ y % 400 = 0
DaysInYear(y) == IF IsLeap(y) THEN 366 ELSE 365
\* m is the month as Date counts it, 0 for January
DaysInMonth(y, m) ==
    IF m = 1
    THEN (IF IsLeap(y) THEN 29 ELSE 28)
    ELSE IF m \in {3, 5, 8, 10} THEN 30 ELSE 31

\* the year of the day that lies d days after January 1 of year y, and the
\* day's position in that year
RECURSIVE YearFrom(_, _)
YearFrom(y, d) ==
    IF d < 0
    THEN YearFrom(y - 1, d + DaysInYear(y - 1))
    ELSE IF d >= DaysInYear(y)
    THEN YearFrom(y + 1, d - DaysInYear(y))
    ELSE [year |-> y, rest |-> d]

RECURSIVE MonthFrom(_, _, _)
MonthFrom(y, m, d) ==
    IF d >= DaysInMonth(y, m)
    THEN MonthFrom(y, m + 1, d - DaysInMonth(y, m))
    ELSE [month |-> m, date |-> d + 1]

\* Date.prototype.getDay of a calendar day: 0 is Sunday; 2024-01-01 is a
\* Monday
GetDay(d) == (d + 1) % 7
\* Date.prototype.getMonth: 0 is January
GetMonth(d) == LET y == YearFrom(2024, d) IN MonthFrom(y.year, 0, y.rest).month
\* Date.prototype.getDate: the day of the month, from 1
GetDate(d) == LET y == YearFrom(2024, d) IN MonthFrom(y.year, 0, y.rest).date

\* Faulty variant of IsHoliday: the month of getMonth() is compared without
\* the + 1.
IsHolidayZeroBasedMonth(t, off) ==
    LET day == GetDay(LocalDay(t, off))
        month == GetMonth(LocalDay(t, off))
        dayOfMonth == GetDate(LocalDay(t, off))
    IN  \/ day = 0 \/ day = 6
        \/ month = 1 /\ dayOfMonth = 1
        \/ month = 5 /\ dayOfMonth = 1
        \/ month = 10 /\ dayOfMonth = 1

\* Faulty variant of IsHoliday: Friday counts as part of the weekend.
IsHolidayWithFriday(t, off) ==
    LET day == GetDay(LocalDay(t, off))
        month == GetMonth(LocalDay(t, off)) + 1
        dayOfMonth == GetDate(LocalDay(t, off))
    IN  \/ day = 0 \/ day = 6 \/ day = 5
        \/ month = 1 /\ dayOfMonth = 1
        \/ month = 5 /\ dayOfMonth = 1
        \/ month = 10 /\ dayOfMonth = 1

\* isHoliday(date): the getters read the instant in the zone of the server
IsHoliday(t, off) ==
    LET day == GetDay(LocalDay(t, off))
        month == GetMonth(LocalDay(t, off)) + 1
        dayOfMonth == GetDate(LocalDay(t, off))
    IN  \/ day = 0 \/ day = 6
        \/ month = 1 /\ dayOfMonth = 1
        \/ month = 5 /\ dayOfMonth = 1
        \/ month = 10 /\ dayOfMonth = 1

\* date.toISOString().split("T")[0]: the calendar day of an instant in UTC
ToISODate(t) == t \div TicksPerDay

\* date.setDate(date.getDate() + n): n calendar days later at the same
\* local time
SetDate(t, n) == t + n * TicksPerDay

\* the direction getPrevTradingDay and getNextTradingDay step in
Direction(fn) == IF fn = "getPrevTradingDay" THEN 0 - 1 ELSE 1

\* lines 39-40 and 50-51: the date string is parsed and moved one day
TradingDayStart ==
    /\ codec.pc = "call"
    /\ codec' = [codec EXCEPT
                    !.pc = "loop",
                    !.date = SetDate(ParseDate(codec.dateStr),
                                     Direction(codec.fn)),
                    !.steps = 1]
    /\ UNCHANGED server

\* lines 41-43 and 52-54: isHoliday(date) is true, the date moves one more
\* day
TradingDayLoop ==
    /\ codec.pc = "loop"
    /\ IsHoliday(codec.date, tz)
    /\ codec' = [codec EXCEPT
                    !.date = SetDate(codec.date, Direction(codec.fn)),
                    !.steps = @ + 1,
                    !.tested = [t |-> codec.date, holiday |-> TRUE]]
    /\ UNCHANGED server

\* lines 44-45 and 55-56: isHoliday(date) is false, the date is returned as
\* the date part of its ISO string
TradingDayReturn ==
    /\ codec.pc = "loop"
    /\ ~IsHoliday(codec.date, tz)
    /\ codec' = [codec EXCEPT
                    !.pc = "returned",
                    !.result = ToISODate(codec.date),
                    !.tested = [t |-> codec.date, holiday |-> FALSE]]
    /\ UNCHANGED server

(* ----------------------------- getBlockData ---------------------------- *)
\* In this part codec holds the provider's answer per date (api), the table
\* block_data (blockData) and the locals of the getBlockData requests
\* (call); the rows of stock_data carry date, blockCode and code.
BlockCalls == 1..MaxBlockCalls
BlockDates == 1..MaxBlockDay

\* everything but block_data, stock_data and the getBlockData locals
blockFrame == << tz, upstreamDown, now, stockInfo, storeFails,
                 batchUpdateStatus, pc, dataDate, reply, jobLocals, get >>

NoBlockReply == [blocks |-> <<>>, stocks |-> <<>>, fromCache |-> FALSE,
                 error |-> FALSE, sent |-> FALSE]
IdleBlockCall == [pc |-> "idle", date |-> 0, existingBlocks |-> <<>>,
                  blocks |-> <<>>, reply |-> NoBlockReply]

\* what the provider lists for a date: a block with one stock and a block
\* without stock_list
ApiBlocks == << [code |-> "b1", stock_list |-> << "s1" >>],
                [code |-> "b2", stock_list |-> <<>>] >>

\* lines 103-140: the provider's answer for the date; a rejected request,
\* an HTML page and a JSON.parse error all give {status_code: -1}
FetchFromApi(date, api) ==
    IF api[date] = "fail"
    THEN [status_code |-> 0 - 1, hasData |-> FALSE, data |-> <<>>]
    ELSE IF api[date] = "empty"
    THEN [status_code |-> 0, hasData |-> TRUE, data |-> <<>>]
    ELSE [status_code |-> 0, hasData |-> TRUE, data |-> ApiBlocks]

\* .where(eq(table.date, date))
WhereDate(rows, date) == SelectSeq(rows, LAMBDA r : r.date = date)

\* lines 465-475: apiData.data.map(block => ({date, code: block.code, ...}))
BlocksToInsert(date, data) ==
    [i \in 1..Len(data) |-> [date |-> date, code |-> data[i].code]]

\* lines 481-507: one row per stock of each block that has a stock_list
RECURSIVE StocksToInsert(_, _)
StocksToInsert(date, data) ==
    IF data = <<>>
    THEN <<>>
    ELSE [i \in 1..Len(Head(data).stock_list) |->
             [date |-> date, blockCode |-> Head(data).code,
              code |-> Head(data).stock_list[i]]]
         \o StocksToInsert(date, Tail(data))

\* lines 428-437: the request arrives and block_data is queried for the date
GetBlockData(b, date) ==
    /\ codec.call[b].pc = "idle"
    /\ \A b2 \in BlockCalls : b2 < b => codec.call[b2].pc # "idle"
    /\ codec' = [codec EXCEPT !.call[b] =
                    [@ EXCEPT !.pc = "existing", !.date = date]]
    /\ UNCHANGED << stockData, blockFrame >>

\* lines 434-454: the rows arrive; with rows the stocks of the date are
\* queried, without rows the provider is asked
ExistingResume(b) ==
    /\ codec.call[b].pc = "existing"
    /\ LET existingBlocks == WhereDate(codec.blockData, codec.call[b].date)
       IN  IF Len(existingBlocks) > 0
           THEN codec' = [codec EXCEPT !.call[b] =
                            [@ EXCEPT !.pc = "cachedStocks",
                                      !.existingBlocks = existingBlocks]]
           ELSE codec' = [codec EXCEPT !.call[b] = [@ EXCEPT !.pc = "api"]]
    /\ UNCHANGED << stockData, blockFrame >>

\* lines 441-450: the stocks arrive and the cached reply is sent
CachedStocksResume(b) ==
    /\ codec.call[b].pc = "cachedStocks"
    /\ codec' = [codec EXCEPT !.call[b] =
                    [@ EXCEPT !.pc = "done",
                              !.reply =
                                 [blocks |-> codec.call[b].existingBlocks,
                                  stocks |->
                                     WhereDate(stockData, codec.call[b].date),
                                  fromCache |-> TRUE, error |-> FALSE,
                                  sent |-> TRUE]]]
    /\ UNCHANGED << stockData, blockFrame >>

\* lines 454-479: the provider has answered; a failure is replied at once,
\* otherwise the block rows are inserted (none for an empty list)
ApiResume(b) ==
    /\ codec.call[b].pc = "api"
    /\ LET date == codec.call[b].date
           apiData == FetchFromApi(date, codec.api)
           blocksToInsert == BlocksToInsert(date, apiData.data)
       IN  IF apiData.status_code # 0 \/ ~apiData.hasData
           THEN codec' = [codec EXCEPT !.call[b] =
                            [@ EXCEPT !.pc = "done",
                                      !.reply =
                                         [blocks |-> <<>>, stocks |-> <<>>,
                                          fromCache |-> FALSE, error |-> TRUE,
                                          sent |-> TRUE]]]
           ELSE IF Len(blocksToInsert) > 0
           THEN codec' = [codec EXCEPT
                            !.blockData = @ \o blocksToInsert,
                            !.call[b] = [@ EXCEPT !.pc = "insertBlocks"]]
           ELSE codec' = [codec EXCEPT
                            !.call[b] = [@ EXCEPT !.pc = "rereadBlocks"]]
    /\ UNCHANGED << stockData, blockFrame >>

\* lines 481-511: the insert of the blocks has settled; the stock rows are
\* inserted (or, without stocks, the blocks are queried again)
BlocksInserted(b) ==
    /\ codec.call[b].pc = "insertBlocks"
    /\ LET date == codec.call[b].date
           stocksToInsert ==
               StocksToInsert(date, FetchFromApi(date, codec.api).data)
       IN  IF Len(stocksToInsert) > 0
           THEN /\ stockData' = stockData \o stocksToInsert
                /\ codec' = [codec EXCEPT
                                !.call[b] = [@ EXCEPT !.pc = "insertStocks"]]
           ELSE /\ UNCHANGED stockData
                /\ codec' = [codec EXCEPT
                                !.call[b] = [@ EXCEPT !.pc = "rereadBlocks"]]
    /\ UNCHANGED blockFrame

\* lines 509-517: the insert of the stocks has settled; the blocks are
\* queried again
StocksInserted(b) ==
    /\ codec.call[b].pc = "insertStocks"
    /\ codec' = [codec EXCEPT !.call[b] = [@ EXCEPT !.pc = "rereadBlocks"]]
    /\ UNCHANGED << stockData, blockFrame >>

\* lines 514-522: the blocks arrive; the stocks are queried again
BlocksReread(b) ==
    /\ codec.call[b].pc = "rereadBlocks"
    /\ codec' = [codec EXCEPT !.call[b] =
                    [@ EXCEPT !.pc = "rereadStocks",
                              !.blocks = WhereDate(codec.blockData,
                                                   codec.call[b].date)]]
    /\ UNCHANGED << stockData, blockFrame >>

\* lines 519-529: the stocks arrive and the reply is sent
StocksReread(b) ==
    /\ codec.call[b].pc = "rereadStocks"
    /\ codec' = [codec EXCEPT !.call[b] =
                    [@ EXCEPT !.pc = "done", !.blocks = <<>>,
                              !.reply =
                                 [blocks |-> codec.call[b].blocks,
                                  stocks |->
                                     WhereDate(stockData, codec.call[b].date),
                                  fromCache |-> FALSE, error |-> FALSE,
                                  sent |-> TRUE]]]
    /\ UNCHANGED << stockData, blockFrame >>

(* ------------------- auth: databaseHooks.user.create ------------------- *)
\* In this part codec holds the table user (users, the ids in insertion
\* order, and admins, the ids whose isAdmin is true) and the position of
\* each user's create.after hook.
Users == 1..MaxUsers

\* the user row has been created with isAdmin: false (lines 24-31) and the
\* after hook is called: lines 36-43, up to the await of the count query
UserCreateAfter(u) ==
    /\ codec.hook[u] = "none"
    /\ codec' = [codec EXCEPT !.users = Append(@, u), !.hook[u] = "count"]
    /\ UNCHANGED << stockData, blockFrame >>

\* lines 43-54 and 61-63: the count arrives; if it is 1 the update of this
\* user's row is issued, otherwise the hook returns
CountResume(u) ==
    /\ codec.hook[u] = "count"
    /\ LET totalUsers == Len(codec.users)
       IN  IF totalUsers = 1
           THEN codec' = [codec EXCEPT !.admins = @ \cup {u},
                                       !.hook[u] = "update"]
           ELSE codec' = [codec EXCEPT !.hook[u] = "done"]
    /\ UNCHANGED << stockData, blockFrame >>

\* lines 50-60: the update has settled and the hook returns
UpdateResume(u) ==
    /\ codec.hook[u] = "update"
    /\ codec' = [codec EXCEPT !.hook[u] = "done"]
    /\ UNCHANGED << stockData, blockFrame >>

(* --------------------------- specification ----------------------------- *)
Trigger == \E c \in Calls, d \in Days : CheckAndUpdateKLine(c, d)
TriggerStep == \E c \in Calls : LatestResume(c) \/ CodesResume(c)
                                 \/ InfoResume(c) \/ LaunchWorkers(c)
WorkerStep == \E c \in Calls, w \in Workers :
                 FetchDone(c, w) \/ WriteDone(c, w) \/ Wake(c, w)
JobEnd == \E c \in Calls : Finish(c)
GetCall == \E g \in Gets, s \in Symbols, f \in BOOLEAN : GetStockKLine(g, s, f)
GetStep == \E g \in Gets : GetRead(g) \/ GetFetchDone(g) \/ GetWriteDone(g)

\* the batch refresh alone: trigger requests and the jobs they start
Next == Trigger \/ TriggerStep \/ WorkerStep \/ JobEnd

Spec == Init /\ [][Next]_vars

\* Every continuation whose await has settled is eventually run: each fetch
\* and store call returns or throws, each timer fires.
Fairness ==
    \A c \in Calls :
        /\ WF_vars(LatestResume(c)) /\ WF_vars(CodesResume(c))
        /\ WF_vars(InfoResume(c)) /\ WF_vars(LaunchWorkers(c))
        /\ WF_vars(Finish(c))
        /\ \A w \in Workers :
              WF_vars(FetchDone(c, w)) /\ WF_vars(WriteDone(c, w))
              /\ WF_vars(Wake(c, w))

FairSpec == Spec /\ Fairness

\* no request has arrived yet: the module has just been loaded; the first
\* `triggers` clients will send a checkAndUpdateKLine request
ServerIdle(triggers) ==
    /\ batchUpdateStatus = [isRunning |-> FALSE, total |-> 0, completed |-> 0,
                            failed |-> 0, startTime |-> 0 - 1]
    /\ pc = [c \in Calls |-> IF c <= triggers THEN "idle" ELSE "done"]
    /\ dataDate = [c \in Calls |-> 0]
    /\ reply = [c \in Calls |-> NoReply]
    /\ allStockCodes = [c \in Calls |-> <<>>]
    /\ existingMap = [c \in Calls |-> {}]
    /\ needsUpdateList = [c \in Calls |-> <<>>]
    /\ queue = [c \in Calls |-> <<>>]
    /\ worker = [c \in Calls |-> [w \in Workers |-> IdleWorker]]
    /\ get = [g \in Gets |-> IdleGet]

\* The worker pool with more work items than workers: the server runs in
\* UTC, stock_info is empty, stock_data lists up to four distinct (code,
\* name) pairs, the provider may have no data for one symbol and the store
\* may reject the writes of another.
InitPool ==
    /\ tz = 0
    /\ now = MaxTime
    /\ stockData \in {SubSeq(AllRows, 1, k) :
                          k \in 0..Min(MaxPoolRows, Len(AllRows))}
    /\ stockInfo = [s \in Symbols |-> NoRec]
    /\ storeFails \in {{}, {ToSymbol(AllRows[1].code)}}
    /\ upstreamDown \in {{}, {ToSymbol(AllRows[Len(AllRows)].code)}}
    /\ ServerIdle(MaxCalls)
    /\ codec = NoCodec

SpecPool == InitPool /\ [][Next]_vars

\* the batch refresh together with getStockKLine requests
NextGet == GetCall \/ GetStep \/ Trigger \/ TriggerStep \/ WorkerStep \/ JobEnd

\* a stock_info row written by an earlier refresh
OldRec == [updatedAt |-> 0, daily |-> "old"]

\* The single-symbol path next to the batch path: stock_info holds a row
\* for the first symbol only, stock_data lists no stock, that stock or the
\* second one, the store works, the provider works or fails for the first
\* and the last symbol, and one client sends a trigger.
InitGet ==
    /\ tz \in TZOffsets
    /\ now = 0
    /\ stockData \in {<<>>} \cup {<< AllRows[i] >> : i \in 1..2}
    /\ stockInfo = [s \in Symbols |->
                      IF s = ToSymbol(AllRows[1].code)
                      THEN OldRec ELSE NoRec]
    /\ storeFails = {}
    /\ upstreamDown \in {{}, {ToSymbol(AllRows[1].code),
                              ToSymbol(AllRows[Len(AllRows)].code)}}
    /\ ServerIdle(1)
    /\ codec = NoCodec

SpecGet == InitGet /\ [][NextGet]_vars

\* the dedup/filter stage alone
NextDedup == DedupStep \/ DedupAgain \/ FilterStep

\* The server is idle and a fetch has accumulated any sequence of at most
\* MaxBars bars for any requested range.
InitDedup ==
    /\ tz = 0
    /\ now = 0
    /\ stockData = <<>>
    /\ stockInfo = [s \in Symbols |-> NoRec]
    /\ storeFails = {}
    /\ upstreamDown = {}
    /\ ServerIdle(0)
    /\ codec \in [pc : {"start"}, allData : BoundedSeq(Bars, MaxBars),
                  startDate : 0..MaxBarDate, endDate : 0..MaxBarDate,
                  result : {<<>>}, again : {<<>>}]

SpecDedup == InitDedup /\ [][NextDedup]_vars

\* one daily fetch
NextFetch == FetchStart \/ YearRequest \/ YearsDone

\* The server is idle and fetchKLineFromQQ(symbol, "daily", startDate,
\* endDate) is called in some year, with a provider that answers each
\* year's request in one of the ways of Outcomes.
InitFetch ==
    /\ tz = 0
    /\ now = 0
    /\ stockData = <<>>
    /\ stockInfo = [s \in Symbols |-> NoRec]
    /\ storeFails = {}
    /\ upstreamDown = {}
    /\ ServerIdle(0)
    /\ codec \in [pc : {"call"}, startDate : 0..YearEnd(MaxYear),
                  endDate : 0..YearEnd(MaxYear), currentYear : 0..MaxYear,
                  responses : [0..MaxYear -> Outcomes], year : {0},
                  rangeEnd : {0}, requests : {<<>>}, allData : {<<>>},
                  result : {<<>>}]

SpecFetch == InitFetch /\ [][NextFetch]_vars

\* the selection of the rows of one payload
NextSelect == SelectDailyStep \/ SelectPeriodStep

\* The server is idle and a payload for the symbol has been parsed: any of
\* the three keys of the period may carry rows, any adjustment may have
\* been asked for.
InitSelect ==
    /\ tz = 0
    /\ now = 0
    /\ stockData = <<>>
    /\ stockInfo = [s \in Symbols |-> NoRec]
    /\ storeFails = {}
    /\ upstreamDown = {}
    /\ ServerIdle(0)
    /\ \E periodKey \in PeriodKeys, adjust \in Adjusts :
         \E present \in SUBSET {a \o periodKey : a \in Adjusts} :
            codec = [pc |-> "decode", periodKey |-> periodKey,
                     adjust |-> adjust, present |-> present, key |-> "none"]

SpecSelect == InitSelect /\ [][NextSelect]_vars

\* getBlockData requests and the continuations of their awaits
BlockCall == \E b \in BlockCalls, d \in BlockDates : GetBlockData(b, d)
BlockStep ==
    \E b \in BlockCalls :
        \/ ExistingResume(b) \/ CachedStocksResume(b) \/ ApiResume(b)
        \/ BlocksInserted(b) \/ StocksInserted(b)
        \/ BlocksReread(b) \/ StocksReread(b)
NextBlock == BlockCall \/ BlockStep

\* block_data and stock_data are empty, the provider has for each date a
\* list of blocks, an empty list or no usable answer, and the clients send
\* getBlockData requests.
InitBlock ==
    /\ tz = 0
    /\ now = 0
    /\ stockData = <<>>
    /\ stockInfo = [s \in Symbols |-> NoRec]
    /\ storeFails = {}
    /\ upstreamDown = {}
    /\ ServerIdle(0)
    /\ \E api \in [BlockDates -> {"ok", "empty", "fail"}] :
          codec = [api |-> api, blockData |-> <<>>,
                   call |-> [b \in BlockCalls |-> IdleBlockCall]]

SpecBlock == InitBlock /\ [][NextBlock]_vars

\* registrations and the continuations of their hooks
NextAuth ==
    \E u \in Users : UserCreateAfter(u) \/ CountResume(u) \/ UpdateResume(u)

\* The table user is empty and nobody has registered.
InitAuth ==
    /\ tz = 0
    /\ now = 0
    /\ stockData = <<>>
    /\ stockInfo = [s \in Symbols |-> NoRec]
    /\ storeFails = {}
    /\ upstreamDown = {}
    /\ ServerIdle(0)
    /\ codec = [users |-> <<>>, admins |-> {},
                hook |-> [u \in Users |-> "none"]]

SpecAuth == InitAuth /\ [][NextAuth]_vars

\* one call of getPrevTradingDay or getNextTradingDay
NextCal == TradingDayStart \/ TradingDayLoop \/ TradingDayReturn

\* The server runs in some zone and one of the two calendar procedures is
\* called with a date of 2024.
InitCal ==
    /\ tz \in TZOffsets
    /\ now = 0
    /\ stockData = <<>>
    /\ stockInfo = [s \in Symbols |-> NoRec]
    /\ storeFails = {}
    /\ upstreamDown = {}
    /\ ServerIdle(0)
    /\ codec \in [pc : {"call"},
                  fn : {"getPrevTradingDay", "getNextTradingDay"},
                  dateStr : CalDays, date : {0}, steps : {0}, result : {0},
                  tested : {[t |-> 0, holiday |-> FALSE]}]

SpecCal == InitCal /\ [][NextCal]_vars

\* the calendar procedures are synchronous: a call that has started runs
\* on to its return
FairSpecCal == SpecCal /\ WF_vars(NextCal)

(* ------------------------------ properties ----------------------------- *)
\* the requests whose batch job holds a queue and a worker pool
ActiveJobs == {c \in Calls : pc[c] \in {"launch", "workers"}}

\* the symbols of a list of work items
SymbolsOf(list) == {list[i].symbol : i \in 1..Len(list)}

\* spec 4.4 dueForRefresh: never refreshed, or last refreshed on a calendar
\* day strictly before the target day
DueForRefresh(rec, targetDay, off) ==
    ~HasRec(rec) \/ LocalDay(rec.updatedAt, off) < targetDay

\* C1: under every interleaving of trigger requests at most one batch job
\* (one queue with its worker pool) is active at any time.
AtMostOneJob == Cardinality(ActiveJobs) <= 1

\* C2: a trigger that finds isRunning set (at line 536 or at line 148)
\* returns at once, starts no worker and leaves the status object, the
\* queues and the workers as they are.
RunningTriggerIsNoOp ==
    [][\A c \in Calls :
          (/\ batchUpdateStatus.isRunning
           /\ pc[c] \in {"idle", "latest"}
           /\ pc'[c] # pc[c])
          => /\ pc'[c] = "done"
             /\ batchUpdateStatus' = batchUpdateStatus
             /\ queue' = queue
             /\ worker' = worker
             /\ stockInfo' = stockInfo]_vars

\* C2 witness: a request was answered "already running" while the job it
\* found is still at work with items left.
RunningTriggerSeen ==
    \E c \in Calls, c2 \in Calls :
        /\ reply[c].message = "already running"
        /\ pc[c2] = "workers"
        /\ batchUpdateStatus.isRunning
        /\ batchUpdateStatus.completed + batchUpdateStatus.failed
             < batchUpdateStatus.total

\* C3: when a job ends, the status is idle, completed + failed equals the
\* size N of the job's due-set, and every due symbol whose store writes do
\* not fail has a stock_info row.
FailureIsolation ==
    [][\A c \in Calls :
          (pc[c] = "workers" /\ pc'[c] = "done")
          => /\ ~batchUpdateStatus'.isRunning
             /\ batchUpdateStatus'.completed + batchUpdateStatus'.failed
                  = Len(needsUpdateList[c])
             /\ \A s \in SymbolsOf(needsUpdateList[c]) \ storeFails :
                   HasRec(stockInfo'[s])]_vars

\* C4: every job that has started ends, with the status back to idle at
\* that moment, whatever mix of items succeeds and fails.
JobEventuallyIdle ==
    \A c \in Calls :
        (pc[c] \in {"launch", "workers"})
            ~> (pc[c] = "done" /\ ~batchUpdateStatus.isRunning)

\* C4 witness: a job has ended idle after one item succeeded and one failed.
JobEndedMixed ==
    /\ \E c \in Calls : pc[c] = "done"
    /\ ActiveJobs = {}
    /\ ~batchUpdateStatus.isRunning
    /\ batchUpdateStatus.completed >= 1
    /\ batchUpdateStatus.failed >= 1

\* the due list batchUpdateAllStocksKLine would compute from the tables now
DueNow(c) ==
    NeedsUpdateList(StocksToUpdate(Distinct(stockData)), stockInfo,
                    QueryDate(dataDate[c], tz))

\* C5: a trigger that finds the job idle while the due-set of its target
\* date is not empty starts a job: it does not end at line 568 "up to date".
TriggerStartsWhenDue ==
    [][\A c \in Calls :
          (/\ pc[c] = "latest" /\ pc'[c] = "done"
           /\ ~batchUpdateStatus.isRunning)
          => Len(DueNow(c)) = 0]_vars

\* C6: right after the transition to running, total is the size of the
\* due-set, completed and failed are 0, startTime is the current time and
\* the queue holds exactly the due-set.
JobStartState ==
    [][\A c \in Calls :
          (pc[c] = "info" /\ pc'[c] = "launch")
          => /\ batchUpdateStatus'.isRunning
             /\ batchUpdateStatus'.total = Len(DueNow(c))
             /\ batchUpdateStatus'.total >= 1
             /\ batchUpdateStatus'.completed = 0
             /\ batchUpdateStatus'.failed = 0
             /\ batchUpdateStatus'.startTime = now'
             /\ batchUpdateStatus'.startTime >= 0
             /\ queue'[c] = DueNow(c)]_vars

\* C6 witness: a second job has just been started, after an earlier job left
\* non-zero counters behind: two items queued, counters reset.
JobJustStarted ==
    \E c \in Calls, c2 \in Calls :
        /\ pc[c] = "launch" /\ pc[c2] = "done"
        /\ reply[c2].message = "started"
        /\ Len(queue[c]) = 2
        /\ batchUpdateStatus.total = 2
        /\ batchUpdateStatus.completed = 0

\* C7: a trigger whose due-set turns out empty (no known symbols at line
\* 158, none due at line 179) leaves the status object unchanged and its
\* reply does not report a started job.
NothingToDoReply ==
    [][\A c \in Calls :
          (pc[c] \in {"codes", "info"} /\ pc'[c] = "done")
          => /\ batchUpdateStatus' = batchUpdateStatus
             /\ ~reply'[c].triggered]_vars

\* C8: the reply of a trigger that starts a job is there from the moment the
\* job exists: no work item has to be processed first.
ReplyBeforeWork ==
    \A c \in Calls :
        pc[c] \in {"codes", "info", "launch", "workers"}
        => reply[c] = [triggered |-> TRUE, message |-> "started"]

\* C8 witness: the reply is out while the job is running and has not
\* finished a single item.
ReplyWhileRunning ==
    \E c \in Calls :
        /\ pc[c] = "workers"
        /\ reply[c].triggered
        /\ batchUpdateStatus.isRunning
        /\ batchUpdateStatus.completed + batchUpdateStatus.failed = 0
        /\ \E w \in Workers : worker[c][w].pc = "fetch"

\* C9: for every stored row and every target day, the batch filter (against
\* the dataDate of the request) and the single-symbol test (against today)
\* both decide "due" exactly by the day-granularity rule.
StalenessRule ==
    \A s \in Symbols :
        /\ \A d \in 0..MaxDay + 1 :
              NeedsUpdate(stockInfo[s], QueryDate(d, tz))
                  <=> DueForRefresh(stockInfo[s], d, tz)
        /\ NeedsUpdateSingle(FALSE, stockInfo[s], Today(now, tz))
              <=> DueForRefresh(stockInfo[s], LocalDay(now, tz), tz)

\* C10: the due-set of a starting job is exactly the set of listed symbols
\* for which dueForRefresh holds against the target day.
DueSetExact ==
    [][\A c \in Calls :
          (pc[c] = "info" /\ pc'[c] = "launch")
          => SymbolsOf(needsUpdateList'[c])
               = {s \in SymbolsOf(StocksToUpdate(allStockCodes[c])) :
                     DueForRefresh(stockInfo[s], dataDate[c], tz)}]_vars

\* the workers of job c that take a work item in the current step
Claiming(c) ==
    {w \in Workers : worker'[c][w].pc = "fetch" /\ worker[c][w].pc # "fetch"}

\* C11: the queue of a job is seeded with its due list, whose items are
\* pairwise distinct; in every step the items that leave the queue are its
\* first k items and exactly k workers take them, one each; a worker keeps
\* its item until the fetch returns; the job ends with the queue empty and
\* no item held.
PoppedExactlyOnce ==
    [][\A c \in Calls :
          LET k == Len(queue[c]) - Len(queue'[c])
              list == needsUpdateList'[c]
          IN  IF pc[c] = "info"
              THEN pc'[c] = "launch"
                   => /\ queue'[c] = list
                      /\ \A i, j \in 1..Len(list) : i # j => list[i] # list[j]
              ELSE /\ k >= 0
                   /\ queue'[c] = SubSeq(queue[c], k + 1, Len(queue[c]))
                   /\ Cardinality(Claiming(c)) = k
                   /\ {worker'[c][w].stock : w \in Claiming(c)}
                        = {queue[c][i] : i \in 1..k}
                   /\ \A w \in Workers :
                         (worker[c][w].pc = "fetch" /\ worker'[c][w].pc = "fetch")
                         => worker'[c][w].stock = worker[c][w].stock
                   /\ (pc[c] = "workers" /\ pc'[c] = "done")
                      => /\ queue[c] = <<>>
                         /\ \A w \in Workers : worker[c][w].pc = "done"]_vars

\* C11 witness: the fourth item of a job was left in the queue by the three
\* workers at launch and has been taken by a worker that woke up, while
\* another worker is about to wake up and find the queue empty.
FourthItemTaken ==
    \E c \in Calls, w \in Workers, w2 \in Workers :
        /\ pc[c] = "workers"
        /\ Len(needsUpdateList[c]) = 4
        /\ worker[c][w].pc = "fetch"
        /\ worker[c][w].stock = needsUpdateList[c][4]
        /\ worker[c][w2].pc = "sleep"
        /\ queue[c] = <<>>

\* completed + failed of a status object
Counted(st) == st.completed + st.failed

\* the items of a job whose processing has not finished: still queued, or
\* held by a worker whose fetch or store call is pending
Unfinished(q, ws) ==
    Len(q) + Cardinality({w \in Workers : ws[w].pc \in {"fetch", "write"}})

\* C12: after every step completed + failed is at most total and, for a job
\* at work, equals the number of its items that have finished; an item that
\* finishes adds one to exactly one of the two counters; when a job ends
\* completed + failed equals total.
CountersExact ==
    [][/\ Counted(batchUpdateStatus') <= batchUpdateStatus'.total
       /\ \A c \in Calls :
             /\ pc'[c] = "workers"
                => Counted(batchUpdateStatus')
                     = Len(needsUpdateList'[c]) - Unfinished(queue'[c], worker'[c])
             /\ (pc[c] = "workers" /\ pc'[c] = "done")
                => Counted(batchUpdateStatus') = batchUpdateStatus'.total
             /\ \A w \in Workers :
                   (worker[c][w].pc = "write" /\ worker'[c][w].pc # "write")
                   => \/ /\ batchUpdateStatus'.completed
                              = batchUpdateStatus.completed + 1
                         /\ batchUpdateStatus'.failed = batchUpdateStatus.failed
                      \/ /\ batchUpdateStatus'.failed
                              = batchUpdateStatus.failed + 1
                         /\ batchUpdateStatus'.completed
                              = batchUpdateStatus.completed]_vars

\* the work items in flight: taken by a worker of some job, with the fetch
\* or the store call pending
InFlight ==
    {cw \in Calls \X Workers : worker[cw[1]][cw[2]].pc \in {"fetch", "write"}}

\* C13: at every moment at most `concurrency` work items are in flight.
ConcurrencyCap == Cardinality(InFlight) <= concurrency

\* C14: when a batch worker finishes an item for which the fetch brought no
\* data, failed grows by one and completed stays; completed grows only for
\* an item that was fetched and stored.
FetchFailureCounted ==
    [][\A c \in Calls, w \in Workers :
          (worker[c][w].pc = "write" /\ worker'[c][w].pc # "write")
          => /\ worker[c][w].daily = "empty"
                => /\ batchUpdateStatus'.failed = batchUpdateStatus.failed + 1
                   /\ batchUpdateStatus'.completed = batchUpdateStatus.completed
             /\ batchUpdateStatus'.completed = batchUpdateStatus.completed + 1
                => /\ worker[c][w].daily = "bars"
                   /\ ~worker[c][w].throws]_vars

\* C15: no write of the batch workers or of getStockKLine moves the
\* updatedAt of a stock_info row backwards.
UpdatedAtMonotonic ==
    [][\A s \in Symbols :
          HasRec(stockInfo[s])
          => stockInfo'[s].updatedAt >= stockInfo[s].updatedAt]_vars

\* C16: with a store that accepts every row (storeFails empty), no write of
\* getStockKLine and no write of a batch worker fails, whatever other write
\* to the same symbol runs next to it.
NoWriteConflict ==
    storeFails = {}
    => /\ \A g \in Gets : get[g].pc = "write" => ~get[g].throws
       /\ \A c \in Calls, w \in Workers :
             worker[c][w].pc = "write" => ~worker[c][w].throws

\* C17: a getStockKLine call without forceUpdate that reads a row last
\* refreshed on the current local day or later returns at once, without a
\* fetch: it returns the row it read and the table is left as it is.
CacheHit ==
    [][\A g \in Gets :
          LET sym == get[g].symbol
          IN  (/\ get[g].pc = "read" /\ get'[g].pc # "read"
               /\ ~get[g].forceUpdate
               /\ HasRec(stockInfo[sym])
               /\ ~DueForRefresh(stockInfo[sym], LocalDay(now', tz), tz))
              => /\ get'[g].pc = "done"
                 /\ get'[g].result = "cached"
                 /\ get'[g].stock = stockInfo[sym]
                 /\ stockInfo' = stockInfo]_vars

\* C17 witness: a call has returned from the cache a row that was refreshed
\* earlier on the same day, and the row is still in the table.
CachedReturned ==
    \E g \in Gets, s \in Symbols :
        /\ get[g].pc = "done" /\ get[g].result = "cached"
        /\ get[g].stock = stockInfo[s]
        /\ HasRec(stockInfo[s])
        /\ stockInfo[s].updatedAt < now
        /\ LocalDay(stockInfo[s].updatedAt, tz) = LocalDay(now, tz)

\* C18: a getStockKLine call goes on to fetch exactly when forceUpdate is
\* set, or there is no row, or the row was last refreshed before the current
\* local day; a call that fetches returns the fetched data, and when it
\* returns the table holds a row for the symbol with the fetched bars whose
\* updatedAt is not before the day of the call, so that a call without
\* forceUpdate on that day is served from the cache.
RefreshOnDemand ==
    [][\A g \in Gets :
          LET sym == get[g].symbol
              day == LocalDay(get[g].now, tz)
          IN  /\ (get[g].pc = "read" /\ get'[g].pc # "read")
                 => (get'[g].pc = "fetch"
                       <=> \/ get[g].forceUpdate
                           \/ DueForRefresh(stockInfo[sym],
                                            LocalDay(now', tz), tz))
              /\ (get[g].pc = "write" /\ get'[g].pc # "write")
                 => /\ get'[g].result = "fetched"
                    /\ HasRec(stockInfo'[sym])
                    /\ stockInfo'[sym].daily
                         = FetchKLineFromQQ(sym, upstreamDown)
                    /\ ~DueForRefresh(stockInfo'[sym], day, tz)
                    /\ ~NeedsUpdateSingle(FALSE, stockInfo'[sym],
                                          LocalMidnight(day, tz))]_vars

\* C19: while the status says idle, what the status query returns does not
\* change: total, completed, failed and startTime keep their values over
\* every step that does not start a job.
IdleStatusKept ==
    [][(~batchUpdateStatus.isRunning /\ ~batchUpdateStatus'.isRunning)
          => GetBatchUpdateStatus' = GetBatchUpdateStatus]_vars

\* the position of the last bar of a sequence that has date d
LastOf(bars, d) ==
    CHOOSE j \in 1..Len(bars) :
        /\ bars[j].date = d
        /\ \A k \in j + 1..Len(bars) : bars[k].date # d

\* C20: the result of the dedup/filter stage holds, for every date of the
\* input inside the requested range, exactly one bar, namely the last bar
\* of the input with that date, and holds nothing else; running the stage
\* on its result gives the result back.
DedupKeepsLast ==
    codec.pc \in {"once", "twice"}
    => LET in == codec.allData
           out == codec.result
           wanted == {in[j].date : j \in {j \in 1..Len(in) :
                         /\ in[j].date >= codec.startDate
                         /\ in[j].date <= codec.endDate}}
       IN  /\ \A d \in wanted :
                 /\ Cardinality({i \in 1..Len(out) : out[i].date = d}) = 1
                 /\ \E i \in 1..Len(out) : out[i] = in[LastOf(in, d)]
           /\ \A i \in 1..Len(out) : out[i].date \in wanted
           /\ codec.pc = "twice" => codec.again = out

\* C20 witness: the input held one date twice with different prices, the
\* later bar was kept, a bar outside the range was dropped, and the stage
\* has been run a second time.
DedupOverwrote ==
    /\ codec.pc = "twice"
    /\ \E i, j \in 1..Len(codec.allData) :
          /\ i < j
          /\ codec.allData[i].date = codec.allData[j].date
          /\ codec.allData[i].close # codec.allData[j].close
          /\ \E k \in 1..Len(codec.result) :
                codec.result[k] = codec.allData[j]
    /\ \E i \in 1..Len(codec.allData) :
          codec.allData[i].date > codec.endDate

\* C21: in the daily and in the weekly/monthly branch, a date of the input
\* has a bar in the result exactly when it lies in [startDate, endDate],
\* both ends included.
RangeInclusive ==
    codec.pc \in {"once", "filtered"}
    => \A i \in 1..Len(codec.allData) :
          LET d == codec.allData[i].date
          IN  (\E k \in 1..Len(codec.result) : codec.result[k].date = d)
              <=> (codec.startDate <= d /\ d <= codec.endDate)

\* C21 witness: the requested range is a single day; of three bars the one
\* dated that day was kept and those of the day before and the day after
\* were dropped.
BoundaryBarsKept ==
    /\ codec.pc \in {"once", "filtered"}
    /\ codec.startDate = codec.endDate
    /\ {codec.allData[i].date : i \in 1..Len(codec.allData)}
         = {codec.startDate - 1, codec.startDate, codec.endDate + 1}
    /\ Len(codec.result) = 1
    /\ codec.result[1].date = codec.startDate

\* the rows a daily fetch has accumulated after the years y..last, given
\* how the provider answered each year
RECURSIVE OkRows(_, _, _)
OkRows(responses, y, last) ==
    IF y > last
    THEN <<>>
    ELSE (IF responses[y] = "ok"
          THEN ProviderRows(y, YearStart(y), YearEnd(y))
          ELSE <<>>) \o OkRows(responses, y + 1, last)

\* the last year a daily fetch has to request
LastYear == Min(YearOf(codec.endDate), codec.currentYear)

\* C22: a failing year never aborts a daily fetch: whatever years fail, and
\* however (rejected request, no "={" marker, invalid JSON, no data for the
\* symbol), the fetch does not throw, has requested every year of its range
\* when it returns, and returns the dedup/filter of exactly the rows of the
\* years that succeeded.
FailedYearSkipped ==
    /\ codec.pc # "threw"
    /\ codec.pc = "returned"
       => /\ {codec.requests[i].year : i \in 1..Len(codec.requests)}
               = YearOf(codec.startDate)..LastYear
          /\ codec.result
               = DedupAndFilter(OkRows(codec.responses,
                                       YearOf(codec.startDate), LastYear),
                                codec.startDate, codec.endDate)

\* C22 witness: the first year's request was rejected, the second year's
\* text was not JSON, the third year succeeded and its bars are returned.
LaterYearAfterFailures ==
    /\ codec.pc = "returned"
    /\ Len(codec.requests) = 3
    /\ codec.responses[codec.requests[1].year] = "network"
    /\ codec.responses[codec.requests[2].year] = "badjson"
    /\ codec.responses[codec.requests[3].year] = "ok"
    /\ Len(codec.result) > 0

\* C28: a daily fetch requests each year from year(startDate) to
\* min(year(endDate), currentYear) exactly once, in ascending order, each
\* for the window Y-01-01..(Y+1)-12-31, and no other year; nothing is
\* deduplicated or filtered before the last of them was answered.
YearRequestsExact ==
    LET first == YearOf(codec.startDate)
        n == IF LastYear >= first THEN LastYear - first + 1 ELSE 0
    IN  codec.pc \in {"loop", "returned"}
        => /\ Len(codec.requests) <= n
           /\ \A i \in 1..Len(codec.requests) :
                 codec.requests[i]
                   = [year |-> first + i - 1,
                      from |-> YearStart(first + i - 1),
                      to |-> YearEnd(first + i - 1)]
           /\ codec.pc = "returned" => Len(codec.requests) = n
           /\ codec.pc = "loop" => codec.result = <<>>

\* C28 witness: the end date lies beyond the current year, two years were
\* requested and the fetch has returned bars.
ClampedToCurrentYear ==
    /\ codec.pc = "returned"
    /\ codec.currentYear < YearOf(codec.endDate)
    /\ Len(codec.requests) = 2
    /\ codec.requests[2].year = codec.currentYear
    /\ Len(codec.result) > 0

\* the key of the requested adjustment if it carries rows, else the first
\* of forward-adjusted, backward-adjusted, raw that does
ExpectedKey(adjust, periodKey, present) ==
    IF adjust \o periodKey \in present
    THEN adjust \o periodKey
    ELSE Find(<< "qfq" \o periodKey, "hfq" \o periodKey, periodKey >>,
              present)

NonTradingDay(d) ==
    \/ d % 7 \in {5, 6}
    \/ d \in {0, 121, 274, 366}

\* C24: isHoliday is true exactly for the Saturdays, the Sundays and the
\* January 1, May 1 and October 1, and false for every other date (the
\* date being the calendar day the Date object shows in the server's zone).
IsHolidayExact ==
    (codec.steps > 1 \/ codec.pc = "returned")
    => (codec.tested.holiday
        <=> NonTradingDay(LocalDay(codec.tested.t, tz)))

\* C24 witness: the day tested last was 2024-05-01, a Wednesday, and was
\* found to be a holiday.
MayDayTested ==
    /\ codec.steps > 1
    /\ LocalDay(codec.tested.t, tz) = 121
    /\ codec.tested.holiday

\* C25: the previous trading day lies strictly before the date asked
\* about, the next trading day strictly after it, and neither is a
\* non-trading day.
TradingDayStrict ==
    codec.pc = "returned"
    => /\ codec.fn = "getPrevTradingDay" => codec.result < codec.dateStr
       /\ codec.fn = "getNextTradingDay" => codec.result > codec.dateStr
       /\ ~NonTradingDay(codec.result)

\* C26: on the single-symbol path an upstream failure is no hard failure:
\* the fetch of a call whose provider request fails brings the empty
\* sequence, the call goes on to its store write, and unless the store
\* refuses that write the call returns a response whose bars are empty.
UpstreamFailureAnswered ==
    [][\A g \in Gets :
          get[g].symbol \in upstreamDown /\ get'[g] # get[g]
          => /\ get[g].pc = "fetch"
                => get'[g].pc = "write" /\ get'[g].daily = "empty"
             /\ get[g].pc = "write" /\ ~get[g].throws
                => /\ get'[g].pc = "done"
                   /\ get'[g].result = "fetched"
                   /\ get'[g].daily = "empty"]_vars

\* C26 witness: the provider is down and a call has returned a fetched
\* response with no bars.
EmptyResponseReturned ==
    \E g \in Gets :
        /\ upstreamDown # {}
        /\ get[g].pc = "done"
        /\ get[g].result = "fetched"
        /\ get[g].daily = "empty"

\* C27: a worker takes an item only at the launch of its job or when its
\* pacing timer has fired, and after the store call of an item has settled,
\* with success or with an error, the worker waits for the pacing timer:
\* no worker pops two items without the pacing delay in between.
PacingBetweenItems ==
    [][\A c \in Calls, w \in Workers :
          worker'[c][w] # worker[c][w]
          => /\ worker'[c][w].pc = "fetch"
                => pc[c] = "launch" \/ worker[c][w].pc = "sleep"
             /\ worker[c][w].pc = "write" => worker'[c][w].pc = "sleep"
             /\ worker[c][w].pc = "sleep"
                => worker'[c][w].pc \in {"fetch", "done"}]_vars

\* C27 witness: the first worker's first item failed, and the worker holds
\* the fourth item while the other two workers still fetch theirs.
PacedAfterFailure ==
    \E c \in Calls :
        /\ pc[c] = "workers"
        /\ Len(needsUpdateList[c]) >= concurrency + 1
        /\ worker[c][1].pc = "fetch"
        /\ worker[c][1].stock = needsUpdateList[c][concurrency + 1]
        /\ \A w \in Workers \ {1} :
              worker[c][w].pc = "fetch" /\ worker[c][w].stock = needsUpdateList[c][w]
        /\ batchUpdateStatus.failed = 1
        /\ batchUpdateStatus.completed = 0

\* C29: a refresh whose store call succeeds leaves in the row exactly the
\* sequence its fetch returned, on the batch path and on the single-symbol
\* path: whatever the row held before is gone.
WholesaleReplacement ==
    [][/\ \A g \in Gets :
             (get[g].pc = "fetch" /\ get'[g].pc = "write" /\ ~get'[g].throws)
             => /\ get'[g].daily
                     = FetchKLineFromQQ(get[g].symbol, upstreamDown)
                /\ stockInfo'[get[g].symbol].daily = get'[g].daily
       /\ \A c \in Calls, w \in Workers :
             (/\ worker[c][w].pc = "fetch" /\ worker'[c][w].pc = "write"
              /\ ~worker'[c][w].throws)
             => /\ worker'[c][w].daily
                     = FetchKLineFromQQ(worker[c][w].stock.symbol,
                                        upstreamDown)
                /\ stockInfo'[worker[c][w].stock.symbol].daily
                     = worker'[c][w].daily
       /\ \A s \in Symbols :
             stockInfo'[s] # stockInfo[s]
             => stockInfo'[s].daily = FetchKLineFromQQ(s, upstreamDown)]_vars

\* C29 witness: the row that held the bars of an earlier refresh has been
\* rewritten by a batch worker and then by a getStockKLine call, and holds
\* the bars that call fetched.
OldBarsReplaced ==
    \E g \in Gets :
        /\ get[g].pc = "write" /\ ~get[g].throws
        /\ get[g].symbol = ToSymbol(AllRows[1].code)
        /\ batchUpdateStatus.completed = 1
        /\ get[g].daily = "bars"
        /\ stockInfo[get[g].symbol].daily = "bars"

\* C30: the store write of a batch worker whose fetch succeeded is an
\* upsert decided when it is made: whether or not the row exists by then,
\* also when another worker or a getStockKLine call created it after the
\* job had started, the write is accepted and the row holds the fetched
\* bars and the time of the write.
BatchWriteIsUpsert ==
    [][\A c \in Calls, w \in Workers :
          LET sym == worker[c][w].stock.symbol
          IN  (/\ worker[c][w].pc = "fetch" /\ worker'[c][w].pc = "write"
               /\ sym \notin storeFails
               /\ sym \notin upstreamDown)
              => /\ ~worker'[c][w].throws
                 /\ stockInfo'[sym]
                      = [updatedAt |-> now', daily |-> worker'[c][w].daily]]_vars

\* C31: the previous trading day is the nearest one before the date asked
\* about and the next trading day the nearest one after it: every date
\* strictly between the date and the result is a non-trading day.
NearestTradingDay ==
    codec.pc = "returned"
    => \A d \in (0 - 7)..(MaxCalDay + 7) :
          ((codec.result < d /\ d < codec.dateStr)
           \/ (codec.dateStr < d /\ d < codec.result))
          => NonTradingDay(d)

\* C36: both calendar procedures terminate: the loop never steps more than
\* four times, the date returned is at most four days from the date asked
\* about, and every call returns.
TradingDayTerminates ==
    /\ [](/\ codec.steps <= 4
          /\ codec.pc = "returned"
             => /\ codec.result - codec.dateStr <= 4
                /\ codec.dateStr - codec.result <= 4)
    /\ <>(codec.pc = "returned")

\* C36 witness: the previous trading day of 2024-01-02 was found after
\* four steps, behind the New Year's Monday and the weekend before it.
FourStepsBack ==
    /\ codec.pc = "returned"
    /\ codec.fn = "getPrevTradingDay"
    /\ codec.dateStr = 1
    /\ codec.steps = 4
    /\ codec.dateStr - codec.result = 4

\* a worker of some job is fetching or writing an item
WorkerActive ==
    \E c \in Calls, w \in Workers : worker[c][w].pc \in {"fetch", "write"}

\* C32: the reported status agrees with the workers: while any batch worker
\* fetches or writes an item the status query reports isRunning = true, so
\* a report of isRunning = false means that no worker is active.
StatusAgreesWithWorkers ==
    WorkerActive => GetBatchUpdateStatus.isRunning

\* C33: a refresh whose fetch brought nothing because the provider failed
\* neither destroys data nor hides the failure: it leaves the row's
\* lastRefreshedAt as it was, so that the symbol stays due, and it never
\* puts an empty history in the place of a non-empty one.
FailedFetchKeepsRow ==
    [][\A s \in upstreamDown :
          /\ stockInfo'[s].updatedAt = stockInfo[s].updatedAt
          /\ stockInfo[s].daily \in {"old", "bars"}
             => stockInfo'[s].daily # "empty"]_vars

\* C34: the work list of a batch job, and so its queue, holds each symbol
\* at most once, whatever stock_data lists, so that no symbol is fetched or
\* written twice within one job.
QueueSymbolsUnique ==
    \A c \in Calls :
        \A i, j \in 1..Len(needsUpdateList[c]) :
            i # j => needsUpdateList[c][i].symbol # needsUpdateList[c][j].symbol

\* C35: the status starts idle with all counters 0; ever after, a running
\* status has total >= 1 and a start time, completed and failed are not
\* negative, and the queue of a job at work holds at most
\* total - (completed + failed) items.
StatusWellFormed ==
    /\ ~batchUpdateStatus.isRunning
    /\ batchUpdateStatus.total = 0
    /\ batchUpdateStatus.completed = 0
    /\ batchUpdateStatus.failed = 0
    /\ [](/\ batchUpdateStatus.isRunning
             => batchUpdateStatus.total >= 1 /\ batchUpdateStatus.startTime >= 0
          /\ batchUpdateStatus.completed >= 0
          /\ batchUpdateStatus.failed >= 0
          /\ \A c \in Calls :
                pc[c] \in {"launch", "workers"}
                => Len(queue[c])
                     <= batchUpdateStatus.total - Counted(batchUpdateStatus))

\* no row occurs twice in a table
NoRowTwice(rows) ==
    \A i, j \in 1..Len(rows) : i # j => rows[i] # rows[j]

\* C37: getBlockData stores the rows of a date at most once, whatever the
\* interleaving of the requests: no block row and no stock row of the
\* provider is in the store twice; and when the provider call fails,
\* nothing is stored for the date and the reply has no blocks, no stocks
\* and an error.
BlockRowsOnce ==
    /\ NoRowTwice(codec.blockData)
    /\ NoRowTwice(stockData)
    /\ \A d \in BlockDates :
          codec.api[d] = "fail"
          => WhereDate(codec.blockData, d) = <<>> /\ WhereDate(stockData, d) = <<>>
    /\ \A b \in BlockCalls :
          (codec.call[b].pc = "done" /\ codec.api[codec.call[b].date] = "fail")
          => codec.call[b].reply
               = [blocks |-> <<>>, stocks |-> <<>>, fromCache |-> FALSE,
                  error |-> TRUE, sent |-> TRUE]

\* C38: whatever the order and interleaving of the registrations, the hook
\* promotes nobody but the first registered user, and once the hooks of all
\* registered users have returned exactly that user is an admin.
FirstUserPromoted ==
    /\ \A u \in codec.admins : u = codec.users[1]
    /\ (/\ codec.users # <<>>
        /\ \A u \in Users : codec.hook[u] \in {"none", "done"})
       => codec.admins = {codec.users[1]}

====
